---- MODULE Spec2Model ----
(***************************************************************************)
(* A model of the read path of the cache: read(), the dynamic overlay,     *)
(* the completeness visitor driven by walkOperation, and the query         *)
(* partitioner.                                                            *)
(*                                                                         *)
(* JSON values are tagged records.  An object carries its own properties   *)
(* as a function whose DOMAIN is the set of its property keys, so that     *)
(* the `in` operator (k \in DOMAIN o.f) and a property holding undefined   *)
(* (o.f[k] = Undef) are different things, as they are in the source.       *)
(***************************************************************************)
EXTENDS Integers, Sequences, FiniteSets, TLC

VARIABLES
  nodes,      \* nodes[s][id]: the node snapshot stored under id in GraphSnapshot s
  readCache,  \* readCache[s][op]: the QueryResult memoized in s for operation op
  context,    \* the CacheContext: [entityTransformer : BOOLEAN]
  focus,      \* the operation the stored graph was written for
  calls,      \* calls[s]: the read() calls made against s, oldest first
  last,       \* what the most recent read() did and returned
  parent,     \* parent[s]: how snapshot s came to be
  objects,    \* objects[s][op]: which QueryResult object s.readCache holds for op
  rootSelections, \* the selection set handed to parseQuery
  parsed      \* the compiled tree parseQuery returned for it (<<>>: not yet)

vars == <<nodes, readCache, context, focus, calls, last, parent, objects,
          rootSelections, parsed>>

-----------------------------------------------------------------------------
(* Bounds *)

MaxCalls == 3      \* read() calls per snapshot
MaxArrayLen == 2   \* elements of a stored array
MaxReplicaCalls == 2  \* read() calls per snapshot when two replicas are read
MaxSelections == 3    \* sibling selections of a selection set handed to parseQuery

-----------------------------------------------------------------------------
(* primitive.ts: JSON values *)

Undef == [t |-> "undef"]
Null == [t |-> "null"]
Scalar(n) == [t |-> "scalar", v |-> n]
Arr(e) == [t |-> "arr", e |-> e]
\* eid: what context.entityIdForValue answers for the object (<<>>: undefined)
\* ty : the object's __typename ("": none)
\* xf : whether context.entityTransformer has been applied to the object
Obj(eid, ty, f) == [t |-> "obj", eid |-> eid, ty |-> ty, xf |-> FALSE, f |-> f]
NoProps == [k \in {} |-> Undef]

isNil(v) == v.t \in {"undef", "null"}
isObject(v) == v.t = "obj"
isArray(v) == v.t = "arr"

\* util: get(value, key)
get(value, key) ==
  IF value.t = "obj"
    THEN IF key \in DOMAIN value.f THEN value.f[key] ELSE Undef
    ELSE Undef

\* context.entityIdForValue(value); NoId is undefined
NoId == <<>>
entityIdForValue(value) == IF value.t = "obj" THEN value.eid ELSE NoId

-----------------------------------------------------------------------------
(* Node identities.  An identity is a sequence of strings. *)

QueryRoot == <<"ROOT_QUERY">>
UserOne == <<"User:1">>
ItemOne == <<"Item:1">>

\* SnapshotEditor: nodeIdForParameterizedValue(containerId, path, args)
nodeIdForParameterizedValue(containerId, path, args) ==
  containerId \o <<"/">> \o path \o <<"/", ToString(args)>>

-----------------------------------------------------------------------------
(* The documents read in this model.  A selection node is named by a       *)
(* string that stands for the identity of the AST node.                    *)

Field(name, alias, args, kids) ==
  [name |-> name, alias |-> alias, args |-> args, kids |-> kids]

NoArgs == 0
NoSelection == ""

SelTable ==
  [ \* S: { foo { bar { fizz } baz { buzz } } }
    s_foo   |-> Field("foo", "", NoArgs, <<"s_bar", "s_baz">>),
    s_bar   |-> Field("bar", "", NoArgs, <<"s_fizz">>),
    s_fizz  |-> Field("fizz", "", NoArgs, <<>>),
    s_baz   |-> Field("baz", "", NoArgs, <<"s_buzz">>),
    s_buzz  |-> Field("buzz", "", NoArgs, <<>>),
    \* L: { items { id name } }
    l_items |-> Field("items", "", NoArgs, <<"l_id", "l_name">>),
    l_id    |-> Field("id", "", NoArgs, <<>>),
    l_name  |-> Field("name", "", NoArgs, <<>>),
    \* D: query ($id) { u: user(id: $id) { name t: tag(n: 2) } }
    d_user  |-> Field("user", "u", 1, <<"d_name", "d_tag">>),
    d_name  |-> Field("name", "", NoArgs, <<>>),
    d_tag   |-> Field("tag", "t", 2, <<>>),
    \* E: query ($k) { l: list { n: name w: widget(k: $k) } }
    e_list  |-> Field("list", "l", NoArgs, <<"e_name", "e_widget">>),
    e_name  |-> Field("name", "n", NoArgs, <<>>),
    e_widget |-> Field("widget", "w", 3, <<>>),
    \* A: { f: foo { b: bar } }
    a_foo   |-> Field("foo", "f", NoArgs, <<"a_bar">>),
    a_bar   |-> Field("bar", "b", NoArgs, <<>>),
    \* T: { foo: fizz bar: fizz fizz }
    t_foo   |-> Field("fizz", "foo", NoArgs, <<>>),
    t_bar   |-> Field("fizz", "bar", NoArgs, <<>>),
    t_fizz  |-> Field("fizz", "", NoArgs, <<>>) ]

Documents ==
  [ S |-> [selections |-> <<"s_foo">>, isStatic |-> TRUE],
    L |-> [selections |-> <<"l_items">>, isStatic |-> TRUE],
    D |-> [selections |-> <<"d_user">>, isStatic |-> FALSE],
    E |-> [selections |-> <<"e_list">>, isStatic |-> FALSE],
    A |-> [selections |-> <<"a_foo">>, isStatic |-> TRUE] ]

Ops == DOMAIN Documents

\* ResponseKey ignoring the alias
ResponseKey_name(s) == SelTable[s].name

ResponseKey(s) ==
  IF SelTable[s].alias # "" THEN SelTable[s].alias ELSE SelTable[s].name

\* apollo-utilities shouldInclude(selection, variables): no selection of these
\* documents carries an @skip or @include directive
shouldInclude(s) == TRUE

\* ParsedQueryNode.ts parseQuery: the response-keyed tree of compiled fields.
\* A map is a sequence of nodes in the order `for (key in map)` enumerates.
RECURSIVE parseQuery(_), hasArgsBelow(_)
hasArgsBelow(s) ==
  \/ SelTable[s].args # NoArgs
  \/ \E i \in 1..Len(SelTable[s].kids) : hasArgsBelow(SelTable[s].kids[i])

ParsedQueryNode(s) ==
  [ key |-> ResponseKey(s),
    selection |-> s,
    children |-> parseQuery(SelTable[s].kids),
    schemaName |-> IF ResponseKey(s) # SelTable[s].name
                     THEN SelTable[s].name ELSE "",
    args |-> SelTable[s].args,
    hasParameterizedChildren |-> hasArgsBelow(s) ]

parseQuery(sels) ==
  LET inc == SelectSeq(sels, shouldInclude)
  IN  [i \in 1..Len(inc) |-> ParsedQueryNode(inc[i])]

\* context.parseOperation(raw): the OperationInstance of a document
parseOperation(op) ==
  [ rootId |-> QueryRoot,
    isStatic |-> Documents[op].isStatic,
    parsedQuery |-> parseQuery(Documents[op].selections) ]

-----------------------------------------------------------------------------
(* util: walkOperation, with the visitor of _visitSelection.               *)
(* A walk state holds the stack and what the visitor closes over.  `at`    *)
(* is not in the source: it records where in the result the walk node's    *)
(* value was found, so that properties can speak about positions.          *)

OperationWalkNode(parsedOperation, parentSelection, p, at) ==
  [parsedOperation |-> parsedOperation, parentSelection |-> parentSelection,
   parent |-> p, at |-> at]

\* Visitor, reporting the enclosing selection instead of the absent field
Visitor_enclosing(st, value, fields, parentSelection) ==
  IF value.t = "undef"
    THEN [st |-> [st EXCEPT !.complete = FALSE,
                            !.missingFields =
                               IF parentSelection # NoSelection
                                 THEN Append(@, parentSelection) ELSE @],
          stop |-> TRUE]
  ELSE IF ~isObject(value)
    THEN [st |-> st, stop |-> FALSE]
  ELSE
    LET nodeId == entityIdForValue(value)
        ids == IF st.nodeIds.def /\ nodeId # NoId
                 THEN [st.nodeIds EXCEPT !.s = @ \cup {nodeId}]
                 ELSE st.nodeIds
        absent == {i \in 1..Len(fields) : fields[i][1] \notin DOMAIN value.f}
    IN  [st |-> IF absent = {}
                  THEN [st EXCEPT !.nodeIds = ids]
                  ELSE [st EXCEPT !.nodeIds = ids,
                                  !.complete = FALSE,
                                  !.missingFields = Append(@, parentSelection)],
         stop |-> FALSE]

\* the visitor passed to walkOperation by _visitSelection
Visitor(st, value, fields, parentSelection) ==
  IF value.t = "undef"
    THEN [st |-> [st EXCEPT !.complete = FALSE,
                            !.missingFields =
                               IF parentSelection # NoSelection
                                 THEN Append(@, parentSelection) ELSE @],
          stop |-> TRUE]
  ELSE IF ~isObject(value)
    THEN [st |-> st, stop |-> FALSE]
  ELSE
    LET nodeId == entityIdForValue(value)
        ids == IF st.nodeIds.def /\ nodeId # NoId
                 THEN [st.nodeIds EXCEPT !.s = @ \cup {nodeId}]
                 ELSE st.nodeIds
        absent == {i \in 1..Len(fields) : fields[i][1] \notin DOMAIN value.f}
        first == CHOOSE i \in absent : \A j \in absent : i <= j
    IN  [st |-> IF absent = {}
                  THEN [st EXCEPT !.nodeIds = ids]
                  ELSE [st EXCEPT !.nodeIds = ids,
                                  !.complete = FALSE,
                                  !.missingFields = Append(@, fields[first][2])],
         stop |-> FALSE]

\* the children pushed after a visit that did not stop, in push order
RECURSIVE ChildWalkNodes(_, _, _, _)
ChildWalkNodes(parsedOperation, p, at, i) ==
  IF i > Len(parsedOperation) THEN <<>>
  ELSE LET node == parsedOperation[i]
           rest == ChildWalkNodes(parsedOperation, p, at, i + 1)
       IN  IF node.children # <<>>
             THEN <<OperationWalkNode(node.children, node.selection,
                                      get(p, node.key), Append(at, node.key))>>
                  \o rest
             ELSE rest

\* WalkStep without `if (parent === null) continue`
WalkStep_nullVisited(st) ==
  LET top == st.stack[Len(st.stack)]
      popped == [st EXCEPT !.stack = SubSeq(@, 1, Len(@) - 1)]
      p == top.parent
  IN  IF isArray(p)
        THEN [popped EXCEPT !.stack = @ \o
                [k \in 1..Len(p.e) |->
                   LET i == Len(p.e) + 1 - k
                   IN  OperationWalkNode(top.parsedOperation, top.parentSelection,
                                         p.e[i], Append(top.at, ToString(i - 1)))]]
      ELSE
        LET fields == [i \in 1..Len(top.parsedOperation) |->
                         <<top.parsedOperation[i].key,
                           top.parsedOperation[i].selection>>]
        IN  IF Len(fields) = 0 THEN popped
            ELSE
              LET seen == [popped EXCEPT !.visits =
                             Append(@, [value |-> p, at |-> top.at,
                                        parentSelection |-> top.parentSelection,
                                        parsedOperation |-> top.parsedOperation])]
                  v == Visitor(seen, p, fields, top.parentSelection)
              IN  IF v.stop THEN v.st
                  ELSE [v.st EXCEPT !.stack = @ \o
                          ChildWalkNodes(top.parsedOperation, p, top.at, 1)]

\* WalkStep pushing the children whatever the visitor answered
WalkStep_noPrune(st) ==
  LET top == st.stack[Len(st.stack)]
      popped == [st EXCEPT !.stack = SubSeq(@, 1, Len(@) - 1)]
      p == top.parent
  IN  IF p.t = "null" THEN popped
      ELSE IF isArray(p)
        THEN [popped EXCEPT !.stack = @ \o
                [k \in 1..Len(p.e) |->
                   LET i == Len(p.e) + 1 - k
                   IN  OperationWalkNode(top.parsedOperation, top.parentSelection,
                                         p.e[i], Append(top.at, ToString(i - 1)))]]
      ELSE
        LET fields == [i \in 1..Len(top.parsedOperation) |->
                         <<top.parsedOperation[i].key,
                           top.parsedOperation[i].selection>>]
        IN  IF Len(fields) = 0 THEN popped
            ELSE
              LET seen == [popped EXCEPT !.visits =
                             Append(@, [value |-> p, at |-> top.at,
                                        parentSelection |-> top.parentSelection,
                                        parsedOperation |-> top.parsedOperation])]
                  v == Visitor(seen, p, fields, top.parentSelection)
              IN  IF FALSE THEN v.st
                  ELSE [v.st EXCEPT !.stack = @ \o
                          ChildWalkNodes(top.parsedOperation, p, top.at, 1)]

\* one iteration of the `while (stack.length)` loop
WalkStep(st) ==
  LET top == st.stack[Len(st.stack)]
      popped == [st EXCEPT !.stack = SubSeq(@, 1, Len(@) - 1)]
      p == top.parent
  IN  IF p.t = "null" THEN popped
      ELSE IF isArray(p)
        THEN [popped EXCEPT !.stack = @ \o
                [k \in 1..Len(p.e) |->
                   LET i == Len(p.e) + 1 - k
                   IN  OperationWalkNode(top.parsedOperation, top.parentSelection,
                                         p.e[i], Append(top.at, ToString(i - 1)))]]
      ELSE
        LET fields == [i \in 1..Len(top.parsedOperation) |->
                         <<top.parsedOperation[i].key,
                           top.parsedOperation[i].selection>>]
        IN  IF Len(fields) = 0 THEN popped
            ELSE
              LET seen == [popped EXCEPT !.visits =
                             Append(@, [value |-> p, at |-> top.at,
                                        parentSelection |-> top.parentSelection,
                                        parsedOperation |-> top.parsedOperation])]
                  v == Visitor(seen, p, fields, top.parentSelection)
              IN  IF v.stop THEN v.st
                  ELSE [v.st EXCEPT !.stack = @ \o
                          ChildWalkNodes(top.parsedOperation, p, top.at, 1)]

RECURSIVE WalkRun(_)
WalkRun(st) == IF st.stack = <<>> THEN st ELSE WalkRun(WalkStep(st))

\* walkOperation(rootOperation, result, visitor), from the visitor's initial
\* closure state
walkOperation(rootOperation, result, closure) ==
  WalkRun([closure EXCEPT !.stack =
             <<OperationWalkNode(rootOperation, NoSelection, result, <<>>)>>])

NoIds == [def |-> FALSE, s |-> {}]
NewIds == [def |-> TRUE, s |-> {}]

\* _visitSelection leaving the root identity to the visitor
_visitSelection_noRoot(query, result, nodeIds) ==
  walkOperation(query.parsedQuery, result,
    [ stack |-> <<>>, visits |-> <<>>,
      complete |-> TRUE,
      missingFields |-> <<>>,
      nodeIds |-> nodeIds ])

\* _visitSelection(query, context, result, nodeIds)
_visitSelection(query, result, nodeIds) ==
  walkOperation(query.parsedQuery, result,
    [ stack |-> <<>>, visits |-> <<>>,
      complete |-> TRUE,
      missingFields |-> <<>>,
      nodeIds |-> IF nodeIds.def /\ result.t # "undef"
                    THEN [nodeIds EXCEPT !.s = @ \cup {query.rootId}]
                    ELSE nodeIds ])

-----------------------------------------------------------------------------
(* partitionQuery and findMissingSelectionSets.  A selection set is a      *)
(* sequence of [selection, selectionSet]; a selection kept verbatim keeps  *)
(* the whole selection set of the original node.                           *)

RECURSIVE SelectionSetOf(_)
SelectionSetOf(sels) ==
  [i \in 1..Len(sels) |->
     [selection |-> sels[i], selectionSet |-> SelectionSetOf(SelTable[sels[i]].kids)]]

InFields(fields, s) == \E i \in 1..Len(fields) : fields[i] = s

RECURSIVE findMissingSelectionSets(_, _, _)
findMissingSelectionSets(selections, fields, i) ==
  IF i > Len(selections) THEN <<>>
  ELSE
    LET s == selections[i]
        rest == findMissingSelectionSets(selections, fields, i + 1)
        verbatim == [selection |-> s,
                     selectionSet |-> SelectionSetOf(SelTable[s].kids)]
    IN  IF ~shouldInclude(s) THEN rest
        ELSE IF SelTable[s].kids = <<>>
          THEN IF InFields(fields, s) THEN <<verbatim>> \o rest ELSE rest
        ELSE IF InFields(fields, s) THEN <<verbatim>> \o rest
        ELSE LET selectionToInsert ==
                   findMissingSelectionSets(SelTable[s].kids, fields, 1)
             IN  IF Len(selectionToInsert) > 0
                   THEN <<[selection |-> s, selectionSet |-> selectionToInsert]>>
                        \o rest
                   ELSE rest

\* raw.document and partitionQuery(fields, raw).document; `original` tells the
\* document object of the raw operation from a rebuilt one
RawDocument(op) ==
  [original |-> TRUE, selectionSet |-> SelectionSetOf(Documents[op].selections)]

partitionQuery(fields, op) ==
  [original |-> FALSE,
   selectionSet |-> findMissingSelectionSets(Documents[op].selections, fields, 1)]

-----------------------------------------------------------------------------
(* The objects the overlay works on.  The overlay mutates objects in       *)
(* place, so it runs on a heap: a stored object is addressed by the node   *)
(* that holds it and its path in that node's data, an object allocated     *)
(* during the read by its allocation number.  A cell is the shallow view   *)
(* of an object or array: its properties hold scalars or references.       *)
(* A heap is [nodes, fresh, written]: the snapshot's nodes, the objects    *)
(* allocated so far, and the addresses of the objects assigned to.         *)

Ref(a) == [t |-> "ref", a |-> a]
StoreAddr(id, p) == [r |-> "store", id |-> id, p |-> p, n |-> 0]
NewAddr(n) == [r |-> "new", id |-> NoId, p |-> <<>>, n |-> n]

isContainer(v) == v.t \in {"obj", "arr"}

IndexOf(v, part) == CHOOSE i \in DOMAIN v.e : ToString(i - 1) = part
Child(v, part) == IF v.t = "obj" THEN v.f[part] ELSE v.e[IndexOf(v, part)]

RECURSIVE GetPath(_, _)
GetPath(v, p) == IF p = <<>> THEN v ELSE GetPath(Child(v, Head(p)), Tail(p))

RECURSIVE SetPath(_, _, _)
SetPath(v, p, w) ==
  IF p = <<>> THEN w
  ELSE IF v.t = "obj"
    THEN [v EXCEPT !.f[Head(p)] = SetPath(@, Tail(p), w)]
    ELSE [v EXCEPT !.e[IndexOf(v, Head(p))] = SetPath(@, Tail(p), w)]

\* GraphSnapshot.getNodeSnapshot(id) and getNodeData(id); NoSnapshot is undefined
NoSnapshot == [exists |-> FALSE, data |-> Undef]
NodeSnapshot(data) == [exists |-> TRUE, data |-> data]
getNodeSnapshot(ns, id) == IF id \in DOMAIN ns THEN ns[id] ELSE NoSnapshot
getNodeData(ns, id) == getNodeSnapshot(ns, id).data

SlotOf(v, id, p) == IF isContainer(v) THEN Ref(StoreAddr(id, p)) ELSE v

ReadCell(h, a) ==
  IF a.r = "new" THEN h.fresh[a.n]
  ELSE LET v == GetPath(h.nodes[a.id].data, a.p)
       IN  IF v.t = "obj"
             THEN [v EXCEPT !.f = [k \in DOMAIN v.f |->
                                     SlotOf(v.f[k], a.id, Append(a.p, k))]]
             ELSE [v EXCEPT !.e = [i \in DOMAIN v.e |->
                                     SlotOf(v.e[i], a.id, Append(a.p, ToString(i - 1)))]]

\* the JSON value a slot stands for
RECURSIVE Deref(_, _)
Deref(h, slot) ==
  IF slot.t # "ref" THEN slot
  ELSE LET c == ReadCell(h, slot.a)
       IN  IF c.t = "obj"
             THEN [c EXCEPT !.f = [k \in DOMAIN c.f |-> Deref(h, c.f[k])]]
             ELSE [c EXCEPT !.e = [i \in DOMAIN c.e |-> Deref(h, c.e[i])]]

Alloc(h, cell) ==
  [h |-> [h EXCEPT !.fresh = Append(@, cell)],
   v |-> Ref(NewAddr(Len(h.fresh) + 1))]

WithProp(f, key, slot) ==
  [k \in DOMAIN f \cup {key} |-> IF k = key THEN slot ELSE f[k]]

\* object[key] = slot, on the object at address a
WriteProp(h, a, key, slot) ==
  IF a.r = "new"
    THEN [h EXCEPT !.fresh[a.n].f = WithProp(@, key, slot),
                   !.written = @ \cup {a}]
    ELSE LET v == GetPath(h.nodes[a.id].data, a.p)
             w == [v EXCEPT !.f = WithProp(@, key, Deref(h, slot))]
         IN  [h EXCEPT !.nodes[a.id].data = SetPath(@, a.p, w),
                       !.written = @ \cup {a}]

\* array[i] = slot, on the array at address a
WriteIndex(h, a, i, slot) ==
  IF a.r = "new"
    THEN [h EXCEPT !.fresh[a.n].e[i] = slot, !.written = @ \cup {a}]
    ELSE LET v == GetPath(h.nodes[a.id].data, a.p)
             w == [v EXCEPT !.e[i] = Deref(h, slot)]
         IN  [h EXCEPT !.nodes[a.id].data = SetPath(@, a.p, w),
                       !.written = @ \cup {a}]

\* _wrapValue handing back the object it was given instead of a copy
_wrapValue_shared(h, value, ctx) ==
  IF value.t = "undef" THEN Alloc(h, Obj(NoId, "", NoProps))
  ELSE IF value.t = "ref"
    THEN LET c == ReadCell(h, value.a)
         IN  IF c.t = "arr" THEN Alloc(h, c)
             ELSE [h |-> h, v |-> value]
  ELSE [h |-> h, v |-> value]

\* _wrapValue(value, context): the heap after the call and the value returned
_wrapValue(h, value, ctx) ==
  IF value.t = "undef" THEN Alloc(h, Obj(NoId, "", NoProps))
  ELSE IF value.t = "ref"
    THEN LET c == ReadCell(h, value.a)
         IN  IF c.t = "arr" THEN Alloc(h, c)
             ELSE IF ctx.entityTransformer /\ c.eid # NoId
               THEN Alloc(h, [c EXCEPT !.xf = TRUE])
               ELSE Alloc(h, c)
  ELSE [h |-> h, v |-> value]

-----------------------------------------------------------------------------
(* _walkAndOverlayDynamicValues *)

\* context.resolverRedirects: deepGet(redirects, [typeName, fieldName]) and
\* the identity the redirect answers for the arguments (NoId: no redirect)
Redirect(typeName, fieldName, args) ==
  IF typeName = "Query" /\ fieldName = "user" THEN UserOne ELSE NoId

\* `at` is not in the source: it records where in the result the walk node's
\* value sits
OverlayWalkNode(value, containerId, parsedMap, path, at) ==
  [value |-> value, containerId |-> containerId, parsedMap |-> parsedMap,
   path |-> path, at |-> at]

\* ResolveChild without the fall back to a redirect
ResolveChild_noRedirect(ns, cell, containerId, path, fieldName, args) ==
  LET synthId == nodeIdForParameterizedValue(containerId, Append(path, fieldName), args)
  IN  [childId |-> synthId, childSnapshot |-> getNodeSnapshot(ns, synthId),
       synthId |-> synthId]

\* ResolveChild computing the synthetic identity without the path
ResolveChild_noPath(ns, cell, containerId, path, fieldName, args) ==
  LET synthId == nodeIdForParameterizedValue(containerId, <<fieldName>>, args)
      typeName == IF cell.ty = "" /\ containerId = QueryRoot THEN "Query" ELSE cell.ty
      redirectId == Redirect(typeName, fieldName, args)
  IN  IF getNodeSnapshot(ns, synthId).exists
        THEN [childId |-> synthId, childSnapshot |-> getNodeSnapshot(ns, synthId),
              synthId |-> synthId]
      ELSE IF redirectId # NoId
        THEN [childId |-> redirectId, childSnapshot |-> getNodeSnapshot(ns, redirectId),
              synthId |-> synthId]
      ELSE [childId |-> synthId, childSnapshot |-> NoSnapshot, synthId |-> synthId]

\* the lookup of a parameterized field's node: the synthetic identity first,
\* then the redirect of (typeName, fieldName)
ResolveChild(ns, cell, containerId, path, fieldName, args) ==
  LET synthId == nodeIdForParameterizedValue(containerId, Append(path, fieldName), args)
      typeName == IF cell.ty = "" /\ containerId = QueryRoot THEN "Query" ELSE cell.ty
      redirectId == Redirect(typeName, fieldName, args)
  IN  IF getNodeSnapshot(ns, synthId).exists
        THEN [childId |-> synthId, childSnapshot |-> getNodeSnapshot(ns, synthId),
              synthId |-> synthId]
      ELSE IF redirectId # NoId
        THEN [childId |-> redirectId, childSnapshot |-> getNodeSnapshot(ns, redirectId),
              synthId |-> synthId]
      ELSE [childId |-> synthId, childSnapshot |-> NoSnapshot, synthId |-> synthId]

\* the loop over a copied array: wraps and pushes its non-null elements,
\* from the last index down
RECURSIVE OverlayElements(_, _, _, _, _, _, _, _)
OverlayElements(st, ctx, arr, i, nextContainerId, children, nextPath, at) ==
  IF i < 1 THEN st
  ELSE
    LET el == ReadCell(st.h, arr.a).e[i]
    IN  IF el.t = "null"
          THEN OverlayElements(st, ctx, arr, i - 1, nextContainerId, children,
                               nextPath, at)
          ELSE
            LET w == _wrapValue(st.h, el, ctx)
                st2 == [st EXCEPT
                          !.h = WriteIndex(w.h, arr.a, i, w.v),
                          !.queue = Append(@, OverlayWalkNode(w.v, nextContainerId,
                                       children, Append(nextPath, ToString(i - 1)),
                                       Append(at, ToString(i - 1))))]
            IN  OverlayElements(st2, ctx, arr, i - 1, nextContainerId, children,
                                nextPath, at)

\* OverlayField going on with the field when no node was found for it
OverlayField_noContinue(st, ctx, walkNode, containerId, path, node) ==
  LET value == walkNode.value
      key == node.key
      fieldName == IF node.schemaName # "" THEN node.schemaName ELSE key
      cell == ReadCell(st.h, value.a)
      found == ResolveChild(st.h.nodes, cell, containerId, path, fieldName, node.args)
      looked == [st EXCEPT !.lookups =
                   Append(@, [containerId |-> containerId, path |-> path,
                              key |-> key, fieldName |-> fieldName,
                              selection |-> node.selection,
                              args |-> node.args, typeName |-> cell.ty,
                              at |-> walkNode.at, childId |-> found.childId,
                              synthId |-> found.synthId,
                              had |-> key \in DOMAIN cell.f,
                              before |-> IF key \in DOMAIN cell.f
                                           THEN Deref(st.h, cell.f[key])
                                           ELSE Undef,
                              resolved |-> found.childSnapshot.exists])]
  IN
  IF FALSE THEN looked
  ELSE
    LET st1 == IF node.args # NoArgs
                 THEN [looked EXCEPT !.dynamicNodeIds = @ \cup {found.childId}]
                 ELSE st
        nextContainerId == IF node.args # NoArgs THEN found.childId ELSE containerId
        nextPath == IF node.args # NoArgs THEN <<>> ELSE Append(path, fieldName)
        child == IF node.args # NoArgs
                   THEN SlotOf(found.childSnapshot.data, found.childId, <<>>)
                   ELSE IF fieldName \in DOMAIN cell.f THEN cell.f[fieldName] ELSE Undef
        at == Append(walkNode.at, key)
    IN
    IF node.hasParameterizedChildren /\ node.children # <<>> /\ child.t # "null"
      THEN
        IF child.t = "ref" /\ ReadCell(st1.h, child.a).t = "arr"
          THEN
            LET c == Alloc(st1.h, ReadCell(st1.h, child.a))
                st2 == OverlayElements([st1 EXCEPT !.h = c.h], ctx, c.v,
                                       Len(ReadCell(c.h, c.v.a).e),
                                       nextContainerId, node.children, nextPath, at)
            IN  [st2 EXCEPT !.h = WriteProp(@, value.a, key, c.v)]
          ELSE
            LET w == _wrapValue(st1.h, child, ctx)
            IN  [st1 EXCEPT
                   !.h = WriteProp(w.h, value.a, key, w.v),
                   !.queue = Append(@, OverlayWalkNode(w.v, nextContainerId,
                                                       node.children, nextPath, at))]
      ELSE [st1 EXCEPT !.h = WriteProp(@, value.a, key, child)]

\* OverlayField recording the identity before it is known to be stored
OverlayField_addFirst(st, ctx, walkNode, containerId, path, node) ==
  LET value == walkNode.value
      key == node.key
      fieldName == IF node.schemaName # "" THEN node.schemaName ELSE key
      cell == ReadCell(st.h, value.a)
      found == ResolveChild(st.h.nodes, cell, containerId, path, fieldName, node.args)
      looked == [st EXCEPT !.lookups =
                   Append(@, [containerId |-> containerId, path |-> path,
                              key |-> key, fieldName |-> fieldName,
                              selection |-> node.selection,
                              args |-> node.args, typeName |-> cell.ty,
                              at |-> walkNode.at, childId |-> found.childId,
                              synthId |-> found.synthId,
                              had |-> key \in DOMAIN cell.f,
                              before |-> IF key \in DOMAIN cell.f
                                           THEN Deref(st.h, cell.f[key])
                                           ELSE Undef,
                              resolved |-> found.childSnapshot.exists])]
  IN
  IF node.args # NoArgs /\ ~found.childSnapshot.exists
    THEN [looked EXCEPT !.dynamicNodeIds = @ \cup {found.childId}]
  ELSE
    LET st1 == IF node.args # NoArgs
                 THEN [looked EXCEPT !.dynamicNodeIds = @ \cup {found.childId}]
                 ELSE st
        nextContainerId == IF node.args # NoArgs THEN found.childId ELSE containerId
        nextPath == IF node.args # NoArgs THEN <<>> ELSE Append(path, fieldName)
        child == IF node.args # NoArgs
                   THEN SlotOf(found.childSnapshot.data, found.childId, <<>>)
                   ELSE IF fieldName \in DOMAIN cell.f THEN cell.f[fieldName] ELSE Undef
        at == Append(walkNode.at, key)
    IN
    IF node.hasParameterizedChildren /\ node.children # <<>> /\ child.t # "null"
      THEN
        IF child.t = "ref" /\ ReadCell(st1.h, child.a).t = "arr"
          THEN
            LET c == Alloc(st1.h, ReadCell(st1.h, child.a))
                st2 == OverlayElements([st1 EXCEPT !.h = c.h], ctx, c.v,
                                       Len(ReadCell(c.h, c.v.a).e),
                                       nextContainerId, node.children, nextPath, at)
            IN  [st2 EXCEPT !.h = WriteProp(@, value.a, key, c.v)]
          ELSE
            LET w == _wrapValue(st1.h, child, ctx)
            IN  [st1 EXCEPT
                   !.h = WriteProp(w.h, value.a, key, w.v),
                   !.queue = Append(@, OverlayWalkNode(w.v, nextContainerId,
                                                       node.children, nextPath, at))]
      ELSE [st1 EXCEPT !.h = WriteProp(@, value.a, key, child)]

\* one iteration of `for (const key in parsedMap)`, for one node of the map;
\* `had` and `before` are not in the source: they record what the value held
\* under the key when the node was looked up
OverlayField(st, ctx, walkNode, containerId, path, node) ==
  LET value == walkNode.value
      key == node.key
      fieldName == IF node.schemaName # "" THEN node.schemaName ELSE key
      cell == ReadCell(st.h, value.a)
      found == ResolveChild(st.h.nodes, cell, containerId, path, fieldName, node.args)
      looked == [st EXCEPT !.lookups =
                   Append(@, [containerId |-> containerId, path |-> path,
                              key |-> key, fieldName |-> fieldName,
                              selection |-> node.selection,
                              args |-> node.args, typeName |-> cell.ty,
                              at |-> walkNode.at, childId |-> found.childId,
                              synthId |-> found.synthId,
                              had |-> key \in DOMAIN cell.f,
                              before |-> IF key \in DOMAIN cell.f
                                           THEN Deref(st.h, cell.f[key])
                                           ELSE Undef,
                              resolved |-> found.childSnapshot.exists])]
  IN
  IF node.args # NoArgs /\ ~found.childSnapshot.exists THEN looked
  ELSE
    LET st1 == IF node.args # NoArgs
                 THEN [looked EXCEPT !.dynamicNodeIds = @ \cup {found.childId}]
                 ELSE st
        nextContainerId == IF node.args # NoArgs THEN found.childId ELSE containerId
        nextPath == IF node.args # NoArgs THEN <<>> ELSE Append(path, fieldName)
        child == IF node.args # NoArgs
                   THEN SlotOf(found.childSnapshot.data, found.childId, <<>>)
                   ELSE IF fieldName \in DOMAIN cell.f THEN cell.f[fieldName] ELSE Undef
        at == Append(walkNode.at, key)
    IN
    IF node.hasParameterizedChildren /\ node.children # <<>> /\ child.t # "null"
      THEN
        IF child.t = "ref" /\ ReadCell(st1.h, child.a).t = "arr"
          THEN
            LET c == Alloc(st1.h, ReadCell(st1.h, child.a))
                st2 == OverlayElements([st1 EXCEPT !.h = c.h], ctx, c.v,
                                       Len(ReadCell(c.h, c.v.a).e),
                                       nextContainerId, node.children, nextPath, at)
            IN  [st2 EXCEPT !.h = WriteProp(@, value.a, key, c.v)]
          ELSE
            LET w == _wrapValue(st1.h, child, ctx)
            IN  [st1 EXCEPT
                   !.h = WriteProp(w.h, value.a, key, w.v),
                   !.queue = Append(@, OverlayWalkNode(w.v, nextContainerId,
                                                       node.children, nextPath, at))]
      ELSE [st1 EXCEPT !.h = WriteProp(@, value.a, key, child)]

RECURSIVE OverlayFields(_, _, _, _, _, _, _)
OverlayFields(st, ctx, walkNode, containerId, path, parsedMap, i) ==
  IF i > Len(parsedMap) THEN st
  ELSE OverlayFields(OverlayField(st, ctx, walkNode, containerId, path, parsedMap[i]),
                     ctx, walkNode, containerId, path, parsedMap, i + 1)

\* OverlayStep keeping the container of the walk node when the value is an
\* entity of its own
OverlayStep_noReset(st, ctx) ==
  LET walkNode == st.queue[Len(st.queue)]
      popped == [st EXCEPT !.queue = SubSeq(@, 1, Len(@) - 1),
                           !.steps = Append(@, [containerId |-> walkNode.containerId,
                                                path |-> walkNode.path,
                                                at |-> walkNode.at,
                                                dynamicNodeIds |-> st.dynamicNodeIds,
                                                lookups |-> Len(st.lookups)])]
  IN  OverlayFields(popped, ctx, walkNode, walkNode.containerId, walkNode.path,
                    walkNode.parsedMap, 1)

\* one iteration of the `while (queue.length)` loop; `steps` is not in the
\* source: it records the container and path each iteration works with, and
\* dynamicNodeIds and the number of lookups made as the iteration begins
OverlayStep(st, ctx) ==
  LET walkNode == st.queue[Len(st.queue)]
      valueId == ReadCell(st.h, walkNode.value.a).eid
      containerId == IF valueId # NoId THEN valueId ELSE walkNode.containerId
      path == IF valueId # NoId THEN <<>> ELSE walkNode.path
      popped == [st EXCEPT !.queue = SubSeq(@, 1, Len(@) - 1),
                           !.steps = Append(@, [containerId |-> containerId,
                                                path |-> path,
                                                at |-> walkNode.at,
                                                dynamicNodeIds |-> st.dynamicNodeIds,
                                                lookups |-> Len(st.lookups)])]
  IN  OverlayFields(popped, ctx, walkNode, containerId, path,
                    walkNode.parsedMap, 1)

RECURSIVE OverlayRun(_, _)
OverlayRun(st, ctx) == IF st.queue = <<>> THEN st ELSE OverlayRun(OverlayStep(st, ctx), ctx)

\* what _walkAndOverlayDynamicValues hands back once the queue is empty
OverlayDone(newResult, final) ==
  [nodes |-> final.h.nodes,
   result |-> Deref(final.h, newResult.v),
   dynamicNodeIds |-> final.dynamicNodeIds,
   lookups |-> final.lookups,
   steps |-> final.steps,
   written |-> final.h.written]

\* the `while (queue.length)` loop, from the queue holding the wrapped result
OverlayFrom(query, ctx, newResult) ==
  OverlayDone(newResult,
    OverlayRun([h |-> newResult.h,
                queue |-> <<OverlayWalkNode(newResult.v, query.rootId,
                                            query.parsedQuery, <<>>, <<>>)>>,
                dynamicNodeIds |-> {},
                lookups |-> <<>>,
                steps |-> <<>>], ctx))

\* _walkAndOverlayDynamicValues(query, context, snapshot, result, dynamicNodeIds):
\* the snapshot's nodes after the call, the value returned, the identities
\* added to dynamicNodeIds and the lookups made
_walkAndOverlayDynamicValues(query, ctx, ns, result) ==
  IF ~getNodeSnapshot(ns, query.rootId).exists
    THEN [nodes |-> ns, result |-> result, dynamicNodeIds |-> {}, lookups |-> <<>>,
          steps |-> <<>>, written |-> {}]
    ELSE OverlayFrom(query, ctx,
           _wrapValue([nodes |-> ns, fresh |-> <<>>, written |-> {}],
                      SlotOf(result, query.rootId, <<>>), ctx))

-----------------------------------------------------------------------------
(* read *)

\* {} as Partial<QueryResult>, before any field of it is set; `has` tells an
\* object found in snapshot.readCache from the absence of one
EmptyResult(op) ==
  [has |-> FALSE, result |-> Undef, complete |-> FALSE,
   entityIds |-> NoIds, dynamicNodeIds |-> NoIds,
   partitionedQuery |-> RawDocument(op)]

\* readCacheGet never finding what an earlier read registered
readCacheGet_fresh(cached, op) == EmptyResult(op)

\* snapshot.readCache.get(operation) || {}
readCacheGet(cached, op) == IF cached.has THEN cached ELSE EmptyResult(op)

\* `if (!queryResult.result)`: whether the result has to be assembled
mustCompute(queryResult) == queryResult.result.t = "undef"

\* `if (includeNodeIds && !queryResult.entityIds)`
mustCollectIds(includeNodeIds, queryResult) ==
  includeNodeIds /\ ~queryResult.entityIds.def

\* followUpVisit checking the stored root data instead of the memoized result
followUpVisit_rootData(operation, queryResult, ns) ==
  _visitSelection(operation, getNodeData(ns, operation.rootId), NewIds)

\* the visit that fills in the entity ids of a result assembled earlier (the
\* snapshot's nodes ns are in scope, and not used)
followUpVisit(operation, queryResult, ns) ==
  _visitSelection(operation, queryResult.result, NewIds)

\* the document stored in queryResult.partitionedQuery at the end of read()
partitionedQueryOf(queryResult, missingFields, op) ==
  IF queryResult.result.t = "undef" \/ Len(missingFields) = 0
    THEN RawDocument(op)
    ELSE partitionQuery(missingFields, op)

\* the end of read(): the partitioned query is stored and the result returned.
\* qr1 is the QueryResult after `if (!queryResult.result) { ... }`, visit1 the
\* visit made there, visit2 the visit of the upgrade
readReturn(op, ns, found, compute, overlay, visit1, qr1, upgrade, visit2) ==
  LET qr2 == IF upgrade
               THEN [qr1 EXCEPT !.complete = visit2.complete,
                                !.entityIds = visit2.nodeIds]
               ELSE qr1
      missingFields == IF upgrade THEN visit2.missingFields
                       ELSE IF compute THEN visit1.missingFields
                       ELSE <<>>
  IN  [ nodes |-> IF compute THEN overlay.nodes ELSE ns,
        queryResult |-> [qr2 EXCEPT !.partitionedQuery =
                           partitionedQueryOf(qr2, missingFields, op)],
        cacheHit |-> ~compute /\ ~upgrade,
        fromCache |-> found.has,
        rootFetched |-> compute,
        overlaid |-> compute /\ ~Documents[op].isStatic,
        visited |-> compute \/ upgrade,
        visits |-> IF upgrade THEN visit2.visits
                   ELSE IF compute THEN visit1.visits ELSE <<>>,
        lookups |-> IF compute THEN overlay.lookups ELSE <<>>,
        steps |-> IF compute THEN overlay.steps ELSE <<>>,
        written |-> IF compute THEN overlay.written ELSE {},
        missingFields |-> missingFields ]

\* `if (includeNodeIds && !queryResult.entityIds) { ... }`
readUpgrade(op, ns, includeNodeIds, found, compute, overlay, visit1, qr1) ==
  readReturn(op, ns, found, compute, overlay, visit1, qr1,
             mustCollectIds(includeNodeIds, qr1),
             followUpVisit(parseOperation(op), qr1, ns))

\* `if (!queryResult.result) { ... }`, given the overlaid result and the visit
\* of it (neither is computed when the branch is not taken)
readAssemble(op, ns, cached, includeNodeIds, overlay, visit1) ==
  LET found == readCacheGet(cached, op)
      queryResult == [found EXCEPT !.has = TRUE]
      compute == mustCompute(queryResult)
  IN  readUpgrade(op, ns, includeNodeIds, found, compute, overlay, visit1,
        IF compute
          THEN [queryResult EXCEPT
                  !.result = overlay.result,
                  !.dynamicNodeIds = IF Documents[op].isStatic THEN @
                                     ELSE [def |-> TRUE, s |-> overlay.dynamicNodeIds],
                  !.entityIds = visit1.nodeIds,
                  !.complete = visit1.complete]
          ELSE queryResult)

\* the visit of the result just assembled
readVisit(op, ns, cached, includeNodeIds, overlay) ==
  readAssemble(op, ns, cached, includeNodeIds, overlay,
               _visitSelection(parseOperation(op), overlay.result,
                               IF includeNodeIds THEN NewIds ELSE NoIds))

\* read(context, raw, snapshot, includeNodeIds): the snapshot's nodes after the
\* call, the QueryResult returned (which is the object in the read cache), and
\* what the call did
read(ctx, op, ns, cached, includeNodeIds) ==
  LET operation == parseOperation(op)
      rootData == getNodeData(ns, operation.rootId)
  IN  readVisit(op, ns, cached, includeNodeIds,
        IF operation.isStatic
          THEN [nodes |-> ns, result |-> rootData, dynamicNodeIds |-> {},
                lookups |-> <<>>, steps |-> <<>>, written |-> {}]
          ELSE _walkAndOverlayDynamicValues(operation, ctx, ns, rootData))

-----------------------------------------------------------------------------
(* The write path, as far as the model needs it: a new snapshot version    *)
(* that holds what the given one holds and the data a server would answer  *)
(* for the selection set of a partitioned query.                           *)

RECURSIVE WriteSelections(_, _, _)
WriteValue(v, selectionSet) ==
  IF selectionSet = <<>>
    THEN IF v.t = "undef" THEN Scalar(1) ELSE v
  ELSE IF v.t = "null" THEN v
  ELSE IF v.t = "arr"
    THEN [v EXCEPT !.e = [i \in DOMAIN v.e |->
                            IF v.e[i].t = "null" THEN v.e[i]
                            ELSE WriteSelections(
                                   IF v.e[i].t = "obj" THEN v.e[i]
                                   ELSE Obj(NoId, "", NoProps), selectionSet, 1)]]
  ELSE WriteSelections(IF v.t = "obj" THEN v ELSE Obj(NoId, "", NoProps),
                       selectionSet, 1)

WriteSelections(obj, selectionSet, i) ==
  IF i > Len(selectionSet) THEN obj
  ELSE LET sel == selectionSet[i]
           key == SelTable[sel.selection].name
       IN  WriteSelections(
             [obj EXCEPT !.f = WithProp(@, key,
                                 WriteValue(get(obj, key), sel.selectionSet))],
             selectionSet, i + 1)

ExtendedNodes(ns, document) ==
  [ns EXCEPT ![QueryRoot].data = WriteSelections(@, document.selectionSet, 1)]

-----------------------------------------------------------------------------
(* The stored graphs the reads start from: for each document, the graphs   *)
(* a write of (part of) its data can leave behind.                         *)

Absent == [t |-> "absent"]
Props(g) == [k \in {x \in DOMAIN g : g[x].t # "absent"} |-> g[k]]
Plain(g) == Obj(NoId, "", Props(g))
NodesOf(g) == [id \in {x \in DOMAIN g : g[x].t # "absent"} |-> NodeSnapshot(g[id])]

\* the arrays of at most MaxArrayLen elements drawn from els
ArraysOf(els) ==
  {Arr(e) : e \in UNION {[1..n -> els] : n \in 0..MaxArrayLen}}

Leaves == {Absent, Null, Scalar(1)}

\* S: { foo { bar { fizz } baz { buzz } } }
BarValues == {Absent, Null, Scalar(7)} \cup {Plain([fizz |-> z]) : z \in Leaves}
BazValues == {Absent, Null} \cup {Plain([buzz |-> z]) : z \in {Absent, Scalar(1)}}
FooObjects == {Obj(e, "", Props([bar |-> b, baz |-> z])) :
                 e \in {NoId, ItemOne}, b \in BarValues, z \in BazValues}
FooElements ==
  {Null} \cup {Plain([bar |-> b, baz |-> z]) :
                 b \in {Absent, Plain(<<>>), Plain([fizz |-> Scalar(1)])},
                 z \in {Absent, Plain([buzz |-> Scalar(1)])}}
FooValues == {Absent, Null, Scalar(7)} \cup FooObjects \cup ArraysOf(FooElements)
StoresS ==
  {NodesOf(QueryRoot :> Absent)}
  \cup {NodesOf(QueryRoot :> Plain([foo |-> v])) : v \in FooValues}

\* L: { items { id name } }
ItemObjects == {Obj(e, "", Props([id |-> i, name |-> n])) :
                  e \in {NoId, ItemOne}, i \in Leaves, n \in Leaves}
ItemElements ==
  {Null} \cup {Plain([id |-> i, name |-> n]) :
                 i \in {Absent, Scalar(1)}, n \in {Absent, Scalar(1)}}
ItemValues == {Absent, Null} \cup ItemObjects \cup ArraysOf(ItemElements)
StoresL ==
  {NodesOf(QueryRoot :> Absent)}
  \cup {NodesOf(QueryRoot :> Plain([items |-> v])) : v \in ItemValues}

\* D: query ($id) { u: user(id: $id) { name t: tag(n: 2) } }
UserParam == nodeIdForParameterizedValue(QueryRoot, <<"user">>, 1)
TagOf(containerId, path) == nodeIdForParameterizedValue(containerId, Append(path, "tag"), 2)
UserObjects == {Obj(e, "User", Props([name |-> n])) :
                  e \in {NoId, UserOne}, n \in {Absent, Scalar(5)}}
UserValues ==
  {Absent, Null} \cup UserObjects
  \cup {Arr(<<Obj(NoId, "User", Props([name |-> Scalar(5)])), Null>>)}
RootValuesD == {Absent, Undef, Plain(<<>>), Obj(NoId, "Viewer", NoProps),
                Plain([u |-> Scalar(2)])}
StoresD ==
  {NodesOf(QueryRoot :> r @@ UserParam :> u @@ UserOne :> e
           @@ TagOf(UserParam, <<>>) :> t1 @@ TagOf(UserParam, <<"0">>) :> t1
           @@ TagOf(UserOne, <<>>) :> t2) :
     r \in RootValuesD, u \in UserValues,
     e \in {Absent, Obj(UserOne, "User", Props([name |-> Scalar(6)]))},
     t1 \in {Absent, Scalar(9)}, t2 \in {Absent, Scalar(8)}}

\* E: query ($k) { l: list { n: name w: widget(k: $k) } }
WidgetOf(containerId, path) ==
  nodeIdForParameterizedValue(containerId, Append(path, "widget"), 3)
ListObjects == {Obj(e, "", Props([name |-> n])) :
                  e \in {NoId, ItemOne}, n \in {Absent, Scalar(5)}}
ListValues == {Absent, Null} \cup ListObjects \cup ArraysOf({Null} \cup ListObjects)
\* the array positions a widget can be stored under
ListIndexPaths == {<<"list", ToString(i - 1)>> : i \in 1..MaxArrayLen}
StoresE ==
  {NodesOf(QueryRoot :> Absent)}
  \cup {NodesOf(QueryRoot :> Plain([list |-> v])
                @@ WidgetOf(ItemOne, <<>>) :> w1
                @@ [id \in {WidgetOf(QueryRoot, p) : p \in {<<"list">>} \cup ListIndexPaths}
                      |-> w2]) :
          v \in ListValues, w1 \in {Absent, Scalar(3)}, w2 \in {Absent, Scalar(4)}}

\* A: { f: foo { b: bar } }; the graph holds a field under its schema name
StoresA ==
  {NodesOf(QueryRoot :> Absent)}
  \cup {NodesOf(QueryRoot :> Plain([foo |-> v])) :
          v \in {Absent, Null} \cup {Obj(e, "", Props([bar |-> z])) :
                                      e \in {NoId, ItemOne}, z \in Leaves}}

Stores(op) ==
  CASE op = "S" -> StoresS
    [] op = "A" -> StoresA
    [] op = "L" -> StoresL
    [] op = "D" -> StoresD
    [] op = "E" -> StoresE

-----------------------------------------------------------------------------
(* The state machine: reads against two snapshot versions.  Snapshot 1 is  *)
(* the stored graph; snapshot 2 starts as a second version with the same   *)
(* content and may be replaced by an extension of snapshot 1.              *)

Snaps == {1, 2}

NoCall ==
  [n |-> 0, s |-> 0, op |-> "", includeNodeIds |-> FALSE,
   queryResult |-> EmptyResult("S"), before |-> EmptyResult("S"),
   cacheHit |-> FALSE, fromCache |-> FALSE,
   rootFetched |-> FALSE, overlaid |-> FALSE, visited |-> FALSE,
   visits |-> <<>>, lookups |-> <<>>, steps |-> <<>>, written |-> {},
   missingFields |-> <<>>,
   oid |-> 0]

\* QueryResult objects are told apart by the order of their allocation; 0 is
\* no object
NoObject == 0
Allocated ==
  CHOOSE n \in {NoObject} \cup {objects[s][op] : s \in Snaps, op \in Ops} :
    \A s \in Snaps, op \in Ops : objects[s][op] <= n

Init ==
  /\ focus \in Ops
  /\ \E ns \in Stores(focus) : nodes = [s \in Snaps |-> ns]
  /\ context \in [entityTransformer : IF Documents[focus].isStatic
                                        THEN {FALSE} ELSE BOOLEAN]
  /\ readCache = [s \in Snaps |-> [op \in Ops |-> EmptyResult(op)]]
  /\ calls = [s \in Snaps |-> <<>>]
  /\ last = NoCall
  /\ parent = [s \in Snaps |-> 0]
  /\ objects = [s \in Snaps |-> [op \in Ops |-> NoObject]]
  /\ rootSelections = Documents[focus].selections
  /\ parsed = parseOperation(focus).parsedQuery

\* the object read() works on: the one found in the read cache, or a new {}
ResultObject(s, op, r) ==
  IF r.fromCache THEN objects[s][op] ELSE Allocated + 1

\* what a call of read() that returns r leaves behind
Returning(s, op, includeNodeIds, r) ==
  /\ objects' = [objects EXCEPT ![s][op] = ResultObject(s, op, r)]
  /\ nodes' = [nodes EXCEPT ![s] = r.nodes]
  /\ readCache' = [readCache EXCEPT ![s][op] = r.queryResult]
  /\ calls' = [calls EXCEPT ![s] = Append(@, <<op, includeNodeIds>>)]
  /\ last' = [n |-> last.n + 1, s |-> s, op |-> op,
              includeNodeIds |-> includeNodeIds,
              queryResult |-> r.queryResult,
              before |-> readCache[s][op],
              cacheHit |-> r.cacheHit, fromCache |-> r.fromCache,
              rootFetched |-> r.rootFetched, overlaid |-> r.overlaid,
              visited |-> r.visited, visits |-> r.visits,
              lookups |-> r.lookups, steps |-> r.steps, written |-> r.written,
              missingFields |-> r.missingFields,
              oid |-> ResultObject(s, op, r)]

\* read(context, raw, snapshot, includeNodeIds)
Read(s, op, includeNodeIds) ==
  /\ Len(calls[s]) < MaxCalls
  /\ Returning(s, op, includeNodeIds,
               read(context, op, nodes[s], readCache[s][op], includeNodeIds))
  /\ UNCHANGED <<context, focus, parent, rootSelections, parsed>>

\* snapshot 2 becomes the version of snapshot 1 to which the data asked for
\* by the partitioned query of a partial read has been written
Extend ==
  /\ parent[2] = 0
  /\ calls[2] = <<>>
  /\ Documents[focus].isStatic
  /\ readCache[1][focus].has
  /\ readCache[1][focus].result.t # "undef"
  /\ ~readCache[1][focus].complete
  /\ nodes' = [nodes EXCEPT ![2] =
                 ExtendedNodes(nodes[1], readCache[1][focus].partitionedQuery)]
  /\ parent' = [parent EXCEPT ![2] = 1]
  /\ UNCHANGED <<readCache, context, focus, calls, last, objects, rootSelections, parsed>>

\* reads of the stored graph stop once it has been extended
ReadFirst == parent[2] = 0 /\ \E b \in BOOLEAN : Read(1, focus, b)
ReadExtended == parent[2] = 1 /\ \E b \in BOOLEAN : Read(2, focus, b)

Next == ReadFirst \/ Extend \/ ReadExtended

Spec == Init /\ [][Next]_vars

\* two snapshot versions with the same content, read in any interleaving
ReadReplica ==
  \E s \in Snaps, b \in BOOLEAN : Len(calls[s]) < MaxReplicaCalls /\ Read(s, focus, b)

NextReplica == ReadReplica

SpecReplica == Init /\ [][NextReplica]_vars

-----------------------------------------------------------------------------
(* The compiler on its own: parseQuery applied to the selection sets that  *)
(* can be put together from the selections of the table.                   *)

\* no two selections of the set write the same response key
DistinctKeys(q) ==
  \A i, j \in 1..Len(q) : i # j => ResponseKey(q[i]) # ResponseKey(q[j])

SelectionSets ==
  {q \in UNION {[1..n -> DOMAIN SelTable] : n \in 1..MaxSelections} : DistinctKeys(q)}

InitCompile ==
  /\ rootSelections \in SelectionSets
  /\ parsed = <<>>
  /\ focus = "S"
  /\ nodes = [s \in Snaps |-> NodesOf(QueryRoot :> Absent)]
  /\ context = [entityTransformer |-> FALSE]
  /\ readCache = [s \in Snaps |-> [op \in Ops |-> EmptyResult(op)]]
  /\ calls = [s \in Snaps |-> <<>>]
  /\ last = NoCall
  /\ parent = [s \in Snaps |-> 0]
  /\ objects = [s \in Snaps |-> [op \in Ops |-> NoObject]]

\* parseQuery(context, fragments, selectionSet)
Compile ==
  /\ parsed = <<>>
  /\ parsed' = parseQuery(rootSelections)
  /\ UNCHANGED <<nodes, readCache, context, focus, calls, last, parent, objects,
                 rootSelections>>

NextCompile == Compile

SpecCompile == InitCompile /\ [][NextCompile]_vars

-----------------------------------------------------------------------------
(* Properties *)

ReadMade == last.n > 0
Returned == last.queryResult
SameCallAgain ==
  /\ last.n > 0
  /\ last'.n = last.n + 1
  /\ last'.s = last.s
  /\ last'.op = last.op
  /\ last'.includeNodeIds = last.includeNodeIds

\* C1: partition correctness.  Whenever a read returned a defined result with
\* complete = FALSE and the snapshot is extended with exactly the fields of
\* the returned partitionedQuery, the same read against the extended snapshot
\* reports complete = TRUE.
C1_PartitionCorrect ==
  (ReadMade /\ last.s = 2 /\ parent[2] = 1) => Returned.complete

\* C2: idempotence.  A read repeated with the same operation, snapshot and
\* includeNodeIds flag returns the same complete and the same entityIds, and
\* is served from the memoization table (a cache hit).
C2_Idempotent ==
  [][SameCallAgain =>
       /\ last'.queryResult.complete = last.queryResult.complete
       /\ last'.queryResult.entityIds = last.queryResult.entityIds
       /\ last'.fromCache
       /\ last'.cacheHit]_vars

\* C3: monotonicity.  Once the QueryResult of an operation in a snapshot
\* version is complete, no later read of that operation in that version
\* reports it incomplete.
C3_Monotonic ==
  [][\A s \in Snaps, op \in Ops :
       (readCache[s][op].has /\ readCache[s][op].complete /\ nodes'[s] = nodes[s])
         => readCache'[s][op].complete]_vars

C3_Witness ==
  /\ last.n >= 2
  /\ last.before.has /\ last.before.complete
  /\ last.visited /\ ~last.rootFetched
  /\ Returned.complete
  /\ Returned.result.t = "obj"

\* the selections a fresh completeness check finds missing in a result
MissingOf(op, result) ==
  _visitSelection(parseOperation(op), result, NoIds).missingFields

\* C4: after every read, partitionedQuery is the original document if the
\* result has no missing fields and the partitioner's output for the missing
\* selections otherwise; a defined, incomplete result never carries the
\* original document.
C4_PartitionedQuery ==
  ReadMade =>
    /\ Returned.partitionedQuery =
         IF Len(MissingOf(last.op, Returned.result)) = 0
           THEN RawDocument(last.op)
           ELSE partitionQuery(MissingOf(last.op, Returned.result), last.op)
    /\ (Returned.result.t # "undef" /\ ~Returned.complete)
         => ~Returned.partitionedQuery.original

\* C5: a read of an (operation, snapshot) pair that has been read before and
\* does not newly ask for entity ids fetches nothing, overlays nothing, visits
\* nothing and reports cacheHit = TRUE.
C5_CacheHit ==
  (ReadMade /\ last.before.has
     /\ ~(last.includeNodeIds /\ ~last.before.entityIds.def))
    => /\ last.cacheHit
       /\ ~last.rootFetched
       /\ ~last.overlaid
       /\ ~last.visited

\* the value found in v by following the keys and indices of p (Undef if
\* the path leaves v)
RECURSIVE ValueAt(_, _)
ValueAt(v, p) ==
  IF p = <<>> THEN v
  ELSE IF v.t = "obj" /\ Head(p) \in DOMAIN v.f
    THEN ValueAt(v.f[Head(p)], Tail(p))
  ELSE IF v.t = "arr" /\ \E i \in DOMAIN v.e : ToString(i - 1) = Head(p)
    THEN ValueAt(v.e[IndexOf(v, Head(p))], Tail(p))
  ELSE Undef

\* The selections of a compiled tree that a value does not hold, read off the
\* value itself: nulls satisfy everything beneath them, arrays are checked
\* element by element.  "/root" stands for a missing root and "/scalar" for a
\* scalar found where sub-selections were asked for.
RECURSIVE AbsentIn(_, _)
AbsentIn(parsedMap, value) ==
  IF value.t = "null" THEN {}
  ELSE IF value.t = "undef" THEN {"/root"}
  ELSE IF value.t = "arr"
    THEN UNION {AbsentIn(parsedMap, value.e[i]) : i \in DOMAIN value.e}
  ELSE IF value.t = "scalar" THEN {"/scalar"}
  ELSE UNION {
         LET node == parsedMap[i]
             child == get(value, node.key)
         IN  IF child.t = "undef" THEN {node.selection}
             ELSE IF node.children = <<>> THEN {}
             ELSE AbsentIn(node.children, child)
         : i \in 1..Len(parsedMap)}

\* the selection set that keeps only the chain of ancestors down to selection
\* x, and x with its whole subtree
RECURSIVE HasBelow(_, _), ChainTo(_, _)
HasBelow(s, x) ==
  \E i \in 1..Len(SelTable[s].kids) :
     SelTable[s].kids[i] = x \/ HasBelow(SelTable[s].kids[i], x)
ChainTo(sels, x) ==
  IF sels = <<>> THEN <<>>
  ELSE LET s == Head(sels)
       IN  IF s = x
             THEN <<[selection |-> s, selectionSet |-> SelectionSetOf(SelTable[s].kids)]>>
           ELSE IF HasBelow(s, x)
             THEN <<[selection |-> s, selectionSet |-> ChainTo(SelTable[s].kids, x)]>>
           ELSE ChainTo(Tail(sels), x)

ParsedOf(op) == parseOperation(op).parsedQuery
Range(q) == {q[i] : i \in 1..Len(q)}

\* C6: when the completeness check of a read finds exactly one selection
\* absent from the result, and that selection has sub-selections, the read
\* reports complete = FALSE, the missing selections are that selection and no
\* other, and partitionedQuery keeps only the chain of ancestors down to it
\* with its whole subtree.
C6_MissingSubtree ==
  \A x \in DOMAIN SelTable :
    (/\ ReadMade /\ last.visited
     /\ SelTable[x].kids # <<>>
     /\ AbsentIn(ParsedOf(last.op), Returned.result) = {x})
    => /\ ~Returned.complete
       /\ Range(last.missingFields) = {x}
       /\ Returned.partitionedQuery =
            [original |-> FALSE,
             selectionSet |-> ChainTo(Documents[last.op].selections, x)]

\* the scenario of the specification: { foo { bar { fizz } baz { buzz } } }
\* read where foo.bar is stored and foo.baz is not
C6_Witness ==
  /\ ReadMade /\ last.visited /\ last.op = "S"
  /\ ValueAt(Returned.result, <<"foo", "bar", "fizz">>).t = "scalar"
  /\ ValueAt(Returned.result, <<"foo">>).t = "obj"
  /\ "baz" \notin DOMAIN ValueAt(Returned.result, <<"foo">>).f
  /\ Range(last.missingFields) = {"s_baz"}
  /\ Returned.partitionedQuery.selectionSet =
       <<[selection |-> "s_foo", selectionSet |->
            <<[selection |-> "s_baz", selectionSet |->
                 <<[selection |-> "s_buzz", selectionSet |-> <<>>]>>]>>]>>

\* the node the lookup of a parameterized field resolves to: the node stored
\* under its synthetic identity or else under its redirect target (NoId: none)
TargetOf(ns, lk) ==
  LET synthId == nodeIdForParameterizedValue(lk.containerId,
                                             Append(lk.path, lk.fieldName), lk.args)
      typeName == IF lk.typeName = "" /\ lk.containerId = QueryRoot
                    THEN "Query" ELSE lk.typeName
      redirectId == Redirect(typeName, lk.fieldName, lk.args)
  IN  IF synthId \in DOMAIN ns THEN synthId
      ELSE IF redirectId # NoId /\ redirectId \in DOMAIN ns THEN redirectId
      ELSE NoId

\* the response keys a compiled selection set overlays on the object it is
\* applied to: its parameterized, aliased and descended-into fields
OverlaidKeys(children) ==
  {children[i].key : i \in {j \in 1..Len(children) :
       \/ children[j].args # NoArgs
       \/ children[j].schemaName # ""
       \/ children[j].hasParameterizedChildren /\ children[j].children # <<>>}}

\* rv carries the stored data: it is the data itself, or, where the field's own
\* sub-selections are overlaid on it, a copy that agrees with the data on
\* every property those sub-selections do not overlay
CarriesObject(rv, data, children) ==
  IF data.t = "obj"
    THEN /\ rv.t = "obj" /\ rv.eid = data.eid /\ rv.ty = data.ty
         /\ \A k \in DOMAIN data.f \ OverlaidKeys(children) :
              k \in DOMAIN rv.f /\ rv.f[k] = data.f[k]
  ELSE IF data.t = "undef" THEN rv.t = "obj"
  ELSE rv = data

CarriesData(rv, data, node) ==
  IF ~(node.hasParameterizedChildren /\ node.children # <<>>) THEN rv = data
  ELSE IF data.t = "arr"
    THEN /\ rv.t = "arr" /\ Len(rv.e) = Len(data.e)
         /\ \A i \in DOMAIN data.e : CarriesObject(rv.e[i], data.e[i], node.children)
  ELSE CarriesObject(rv, data, node.children)

\* the places of a result where a parameterized field is asked for: <<at, key>>
\* for every object at position `at` that the overlay can reach
RECURSIVE ParameterizedAt(_, _, _)
ParameterizedAt(parsedMap, value, at) ==
  IF value.t = "arr"
    THEN UNION {ParameterizedAt(parsedMap, value.e[i], Append(at, ToString(i - 1)))
                  : i \in DOMAIN value.e}
  ELSE IF value.t # "obj" THEN {}
  ELSE UNION {
         LET node == parsedMap[i]
         IN  (IF node.args # NoArgs THEN {<<at, node.key>>} ELSE {})
             \cup (IF node.hasParameterizedChildren /\ node.children # <<>>
                     THEN ParameterizedAt(node.children, get(value, node.key),
                                          Append(at, node.key))
                     ELSE {})
         : i \in 1..Len(parsedMap)}

\* C7: overlay correctness.  Every field with arguments whose synthetic
\* identity, or else its redirect target, is a node stored in the snapshot
\* appears in the overlaid result under its response key carrying that node's
\* data, and the resolved identity is in dynamicNodeIds; every parameterized
\* field of the result is looked up.
C7_OverlayCorrect ==
  (ReadMade /\ last.overlaid /\ QueryRoot \in DOMAIN nodes[last.s]) =>
    /\ \A i \in 1..Len(last.lookups) :
         LET lk == last.lookups[i]
             target == TargetOf(nodes[last.s], lk)
             container == ValueAt(Returned.result, lk.at)
         IN  target # NoId =>
               /\ target \in Returned.dynamicNodeIds.s
               /\ container.t = "obj"
               /\ lk.key \in DOMAIN container.f
               /\ CarriesData(container.f[lk.key], nodes[last.s][target].data,
                              ParsedQueryNode(lk.selection))
    /\ ParameterizedAt(ParsedOf(last.op), Returned.result, <<>>)
         \subseteq {<<last.lookups[i].at, last.lookups[i].key>> :
                      i \in 1..Len(last.lookups)}

\* an aliased field resolved through the redirect table, with a nested
\* parameterized field overlaid on the copy of the stored node's data
C7_Witness ==
  /\ ReadMade /\ last.overlaid /\ last.op = "D"
  /\ UserParam \notin DOMAIN nodes[last.s]
  /\ UserOne \in Returned.dynamicNodeIds.s
  /\ TagOf(UserOne, <<>>) \in Returned.dynamicNodeIds.s
  /\ ValueAt(Returned.result, <<"u", "name">>) = Scalar(6)
  /\ ValueAt(Returned.result, <<"u", "t">>) = Scalar(8)

\* C8: null propagation.  The visitor is never invoked on a null value nor on
\* anything beneath one, and a result in which nothing but nulls stands in
\* for requested data is complete with no missing selection.
C8_NullPropagation ==
  (ReadMade /\ last.visited) =>
    /\ \A i \in 1..Len(last.visits) :
         /\ last.visits[i].value.t # "null"
         /\ \A k \in 0..Len(last.visits[i].at) :
              ValueAt(Returned.result, SubSeq(last.visits[i].at, 1, k)).t # "null"
    /\ AbsentIn(ParsedOf(last.op), Returned.result) = {}
         => Returned.complete /\ last.missingFields = <<>>

\* a result holding a null where sub-selections were asked for, as a field
\* value or as an array element
HoldsNull(v) ==
  \/ \E k \in DOMAIN v.f : v.f[k].t = "null"
  \/ \E k \in DOMAIN v.f : v.f[k].t = "arr" /\ \E i \in DOMAIN v.f[k].e : v.f[k].e[i].t = "null"

C8_Witness ==
  /\ ReadMade /\ last.visited
  /\ Returned.result.t = "obj"
  /\ HoldsNull(Returned.result)
  /\ Returned.complete

\* C9: reads never mutate the graph store.  A read leaves every node of every
\* snapshot as it was, and every object or array the overlay assigns to is one
\* it allocated itself.
C9_StoreUntouched ==
  [][last'.n # last.n =>
       /\ nodes' = nodes
       /\ \A a \in last'.written : a.r = "new"]_vars

C9_Witness ==
  /\ ReadMade /\ last.overlaid
  /\ Cardinality(last.written) >= 2
  /\ Returned.dynamicNodeIds.s # {}
  /\ context.entityTransformer

CountCalls(q, b) == Cardinality({i \in 1..Len(q) : q[i][2] = b})

\* C10: order independence.  Two snapshots with the same content that have
\* served the same collection of reads of one operation, in whatever order,
\* hold the same memoized QueryResult.
C10_OrderIndependent ==
  (/\ calls[1] # <<>>
   /\ nodes[1] = nodes[2]
   /\ CountCalls(calls[1], TRUE) = CountCalls(calls[2], TRUE)
   /\ CountCalls(calls[1], FALSE) = CountCalls(calls[2], FALSE))
  => readCache[1][focus] = readCache[2][focus]

\* C11: memoization by upsert.  Every read registers the object it works on
\* in the read cache of the snapshot it reads, whatever the outcome of the
\* completeness check, and returns that object; a read of a pair read before
\* returns the object registered earlier; the object is never one registered
\* in another snapshot, and no other entry of any read cache changes.
C11_Upsert ==
  [][last'.n # last.n =>
       /\ last'.oid # NoObject
       /\ objects'[last'.s][last'.op] = last'.oid
       /\ readCache'[last'.s][last'.op] = last'.queryResult
       /\ readCache'[last'.s][last'.op].has
       /\ objects[last'.s][last'.op] # NoObject
            => last'.oid = objects[last'.s][last'.op]
       /\ \A t \in Snaps, o \in Ops :
            (t # last'.s \/ o # last'.op)
              => /\ objects[t][o] # last'.oid
                 /\ objects'[t][o] = objects[t][o]
                 /\ readCache'[t][o] = readCache[t][o]]_vars

\* a partial result read again from the second snapshot version, after the
\* first version memoized a result of its own for the same operation
C11_Witness ==
  /\ last.n >= 3 /\ last.s = 2 /\ Len(calls[2]) >= 2
  /\ objects[1][last.op] # NoObject
  /\ objects[2][last.op] = last.oid
  /\ objects[1][last.op] # last.oid
  /\ last.fromCache
  /\ Returned.result.t = "obj" /\ ~Returned.complete

\* the aliased selections of a compiled tree whose field the value holds
\* under its schema name, but which the value does not carry under the
\* response key
RECURSIVE AliasFaults(_, _)
AliasFaults(parsedMap, value) ==
  IF value.t = "arr"
    THEN UNION {AliasFaults(parsedMap, value.e[i]) : i \in DOMAIN value.e}
  ELSE IF value.t # "obj" THEN {}
  ELSE UNION {
         LET node == parsedMap[i]
             stored == get(value, node.schemaName)
         IN  (IF /\ node.schemaName # "" /\ node.args = NoArgs
                 /\ stored.t # "undef"
                 /\ ~(/\ node.key \in DOMAIN value.f
                      /\ CarriesData(value.f[node.key], stored, node))
                THEN {node.selection} ELSE {})
             \cup (IF node.children # <<>>
                     THEN AliasFaults(node.children, get(value, node.key))
                     ELSE {})
         : i \in 1..Len(parsedMap)}

\* the aliased selections of a compiled tree, parameterized or not
RECURSIVE Aliased(_)
Aliased(parsedMap) ==
  UNION {(IF parsedMap[i].schemaName # "" THEN {parsedMap[i].selection} ELSE {})
         \cup Aliased(parsedMap[i].children) : i \in 1..Len(parsedMap)}

\* whether the object of a visit holds no data for selection x: none under
\* the schema name, or, for a parameterized field, none resolved there
NotStoredAt(x, visit) ==
  IF SelTable[x].args = NoArgs
    THEN get(visit.value, SelTable[x].name).t = "undef"
    ELSE ~\E i \in 1..Len(last.lookups) :
            /\ last.lookups[i].resolved
            /\ last.lookups[i].selection = x
            /\ last.lookups[i].at = visit.at

\* C12: results are shaped by response key.  After every read, each aliased
\* field that the result's objects hold under the schema name is in the
\* result under its alias with the same value, each aliased parameterized
\* field that resolved to a stored node is in the result under its alias,
\* and an aliased selection is reported missing only if some visited object
\* asked for it holds no data for it.
C12_ResponseKey ==
  ReadMade =>
    /\ AliasFaults(ParsedOf(last.op), Returned.result) = {}
    /\ \A i \in 1..Len(last.lookups) :
         LET lk == last.lookups[i]
         IN  (lk.resolved /\ lk.key # lk.fieldName)
               => lk.key \in DOMAIN ValueAt(Returned.result, lk.at).f
    /\ \A x \in Range(last.missingFields) \cap Aliased(ParsedOf(last.op)) :
         \E i \in 1..Len(last.visits) :
           /\ x \in {last.visits[i].parsedOperation[j].selection :
                       j \in 1..Len(last.visits[i].parsedOperation)}
           /\ NotStoredAt(x, last.visits[i])

\* whether a compiled map is the compilation of a selection set as the
\* compiler is described: one node per selection, in order, keyed by the
\* alias if there is one and by the field name otherwise, with the schema
\* name recorded when the alias differs from the name and not recorded for
\* an unaliased field, and so on in the sub-selections
RECURSIVE CompiledAs(_, _)
CompiledAs(parsedMap, sels) ==
  /\ Len(parsedMap) = Len(sels)
  /\ \A i \in 1..Len(sels) :
       LET field == SelTable[sels[i]]
           node == parsedMap[i]
       IN  /\ node.selection = sels[i]
           /\ node.key = IF field.alias # "" THEN field.alias ELSE field.name
           /\ (field.alias # "" /\ field.alias # field.name)
                => node.schemaName = field.name
           /\ field.alias = "" => node.schemaName = ""
           /\ CompiledAs(node.children, field.kids)
  /\ \A i, j \in 1..Len(parsedMap) : i # j => parsedMap[i].key # parsedMap[j].key

\* C13: compilation keys nodes by response key and records schemaName exactly
\* when the field is aliased; the siblings of a selection set stay separate
\* nodes, also when several of them select the same field.
C13_Compiled ==
  parsed # <<>> => CompiledAs(parsed, rootSelections)

\* { foo: fizz bar: fizz fizz } compiled to three sibling nodes
C13_Witness ==
  /\ rootSelections = <<"t_foo", "t_bar", "t_fizz">>
  /\ Len(parsed) = 3
  /\ <<parsed[1].key, parsed[2].key, parsed[3].key>> = <<"foo", "bar", "fizz">>
  /\ <<parsed[1].schemaName, parsed[2].schemaName, parsed[3].schemaName>>
       = <<"fizz", "fizz", "">>

\* C14: a scalar where an object is expected satisfies its branch.  In every
\* read that runs the completeness check, no visit is made beneath a scalar
\* of the result, and a result in which nothing is absent except beneath
\* scalars (or nulls) is complete with no missing selection.
C14_ScalarSatisfied ==
  (ReadMade /\ last.visited) =>
    /\ \A i \in 1..Len(last.visits) :
         \A k \in 0..(Len(last.visits[i].at) - 1) :
           ValueAt(Returned.result, SubSeq(last.visits[i].at, 1, k)).t # "scalar"
    /\ AbsentIn(ParsedOf(last.op), Returned.result) \subseteq {"/scalar"}
         => Returned.complete /\ last.missingFields = <<>>

\* a path part that is an array index
IsIndex(part) == \E i \in 0..MaxArrayLen : part = ToString(i)

IsSuffix(p, q) ==
  Len(p) <= Len(q) /\ SubSeq(q, Len(q) - Len(p) + 1, Len(q)) = p

\* a position of the result (response keys and indices) with every response
\* key replaced by the name of the field it stands for
RECURSIVE SchemaPath(_, _)
SchemaPath(parsedMap, at) ==
  IF at = <<>> THEN <<>>
  ELSE IF IsIndex(Head(at)) THEN <<Head(at)>> \o SchemaPath(parsedMap, Tail(at))
  ELSE LET node == parsedMap[CHOOSE i \in 1..Len(parsedMap) : parsedMap[i].key = Head(at)]
       IN  <<SelTable[node.selection].name>> \o SchemaPath(node.children, Tail(at))

\* C15, as claimed: the identity looked up for a parameterized field is the
\* one computed from the container, the path extended by the field's response
\* key, and the args; and the path is made of the response keys and indices
\* that lead to the object holding the field.
C15_IdentityByResponseKey ==
  (ReadMade /\ last.overlaid) =>
    \A i \in 1..Len(last.lookups) :
      LET lk == last.lookups[i]
      IN  /\ lk.synthId = nodeIdForParameterizedValue(lk.containerId,
                            Append(lk.path, lk.key), lk.args)
          /\ IsSuffix(lk.path, lk.at)

\* C15, amended: the identity looked up for a parameterized field is the one
\* computed from the container, the path extended by the field's schema name
\* (the response key of an unaliased field), and the args; and the path is
\* made of the schema names and indices that lead to the object holding the
\* field.
C15_IdentityBySchemaName ==
  (ReadMade /\ last.overlaid) =>
    \A i \in 1..Len(last.lookups) :
      LET lk == last.lookups[i]
      IN  /\ lk.synthId = nodeIdForParameterizedValue(lk.containerId,
                            Append(lk.path, SelTable[lk.selection].name), lk.args)
          /\ IsSuffix(lk.path, SchemaPath(ParsedOf(last.op), lk.at))

\* an aliased parameterized field found under its synthetic identity, beneath
\* an aliased field and an array index
C15_Witness ==
  /\ ReadMade /\ last.overlaid
  /\ \E i \in 1..Len(last.lookups) :
       LET lk == last.lookups[i]
       IN  /\ lk.key # lk.fieldName
           /\ Len(lk.path) = 2 /\ lk.path # lk.at
           /\ lk.resolved /\ lk.childId = lk.synthId

\* whether the value at a position of the result was put there from a
\* resolved parameterized node, and the identity of that node
SubstitutedAt(at) ==
  {last.lookups[i].childId : i \in {j \in 1..Len(last.lookups) :
      /\ last.lookups[j].resolved
      /\ at # <<>>
      /\ last.lookups[j].at = SubSeq(at, 1, Len(at) - 1)
      /\ last.lookups[j].key = at[Len(at)]}}

\* the identity a value of the result answers for as a container (NoId: none)
AnchorAt(at) ==
  LET v == ValueAt(Returned.result, at)
  IN  IF entityIdForValue(v) # NoId THEN entityIdForValue(v)
      ELSE IF SubstitutedAt(at) # {} THEN CHOOSE id \in SubstitutedAt(at) : TRUE
      ELSE NoId

\* the length of the longest prefix of a position that has an anchor (0: none
\* but the root)
NearestAnchor(at) ==
  CHOOSE k \in 0..Len(at) :
    /\ k = 0 \/ AnchorAt(SubSeq(at, 1, k)) # NoId
    /\ \A j \in (k + 1)..Len(at) : AnchorAt(SubSeq(at, 1, j)) = NoId

\* the container and path of every iteration of the overlay against the
\* nearest anchor of its position, the path being told in schema names
\* (bySchemaName) or in the keys of the result
StepsTracked(bySchemaName) ==
  \A i \in 1..Len(last.steps) :
    LET step == last.steps[i]
        k == NearestAnchor(step.at)
        names == IF bySchemaName THEN SchemaPath(ParsedOf(last.op), step.at)
                 ELSE step.at
    IN  /\ step.containerId =
             IF AnchorAt(SubSeq(step.at, 1, k)) # NoId
               THEN AnchorAt(SubSeq(step.at, 1, k)) ELSE QueryRoot
        /\ step.path = SubSeq(names, k + 1, Len(names))

\* every lookup is made with the container and path of the iteration it
\* belongs to, and relative to the entity when its holder is one
LookupsTracked ==
  \A i \in 1..Len(last.lookups) :
    LET lk == last.lookups[i]
        holder == ValueAt(Returned.result, lk.at)
    IN  /\ \E j \in 1..Len(last.steps) :
             /\ last.steps[j].at = lk.at
             /\ last.steps[j].containerId = lk.containerId
             /\ last.steps[j].path = lk.path
        /\ entityIdForValue(holder) # NoId
             => /\ lk.containerId = entityIdForValue(holder)
                /\ lk.synthId = nodeIdForParameterizedValue(
                     entityIdForValue(holder),
                     <<SelTable[lk.selection].name>>, lk.args)

\* C16 (as stated): container tracking.  In every iteration of the overlay,
\* containerId is the identity of the nearest enclosing value that is an entity
\* or was substituted from a resolved parameterized node, the operation's root
\* if there is none, and path is the sequence of field keys of the result and
\* array indices from that value to the current one; a parameterized field of
\* an entity is looked up relative to the entity.
C16_PathByResponseKey ==
  (ReadMade /\ last.overlaid) => (StepsTracked(FALSE) /\ LookupsTracked)

\* C16 (amended): the same, the path being the sequence of schema names of the
\* fields (the response key only for an unaliased field) and array indices.
C16_ContainerTracking ==
  (ReadMade /\ last.overlaid) => (StepsTracked(TRUE) /\ LookupsTracked)

\* an array with an entity and a plain object: the widget of the first is
\* looked up relative to the entity, that of the second relative to the root
C16_Witness ==
  /\ ReadMade /\ last.overlaid /\ last.op = "E"
  /\ \E i, j \in 1..Len(last.lookups) :
       /\ last.lookups[i].containerId = ItemOne /\ last.lookups[i].path = <<>>
       /\ last.lookups[i].resolved /\ Len(last.lookups[i].at) = 2
       /\ last.lookups[j].containerId = QueryRoot /\ Len(last.lookups[j].path) = 2
       /\ last.lookups[j].resolved

IsPrefix(p, q) == Len(p) <= Len(q) /\ SubSeq(q, 1, Len(p)) = p

\* the compiled map the overlay works with at a position of the result
RECURSIVE MapAt(_, _)
MapAt(parsedMap, at) ==
  IF at = <<>> THEN parsedMap
  ELSE IF IsIndex(Head(at)) THEN MapAt(parsedMap, Tail(at))
  ELSE MapAt(parsedMap[CHOOSE i \in 1..Len(parsedMap) :
                         parsedMap[i].key = Head(at)].children, Tail(at))

\* C17: an unresolved parameterized field is a soft condition.  When neither
\* the synthetic identity nor a redirect yields a stored node, the value under
\* the field's response key stays what it was in the copied result, no
\* identity enters dynamicNodeIds on its account, no traversal state is pushed
\* beneath it, and the traversal goes on: every parameterized field of every
\* traversal state is looked up, whatever happened to the fields before it.
C17_UnresolvedIsSoft ==
  (ReadMade /\ last.overlaid) =>
    /\ \A i \in 1..Len(last.lookups) :
         LET lk == last.lookups[i]
             holder == ValueAt(Returned.result, lk.at)
         IN  ~lk.resolved =>
               /\ holder.t = "obj"
               /\ (lk.key \in DOMAIN holder.f) = lk.had
               /\ lk.had => holder.f[lk.key] = lk.before
               /\ lk.childId \in Returned.dynamicNodeIds.s =>
                    \E j \in 1..Len(last.lookups) :
                      /\ last.lookups[j].resolved
                      /\ last.lookups[j].childId = lk.childId
               /\ \A j \in 1..Len(last.steps) :
                    ~IsPrefix(Append(lk.at, lk.key), last.steps[j].at)
    /\ \A j \in 1..Len(last.steps) :
         LET map == MapAt(ParsedOf(last.op), last.steps[j].at)
         IN  \A n \in 1..Len(map) :
               map[n].args # NoArgs =>
                 \E i \in 1..Len(last.lookups) :
                   /\ last.lookups[i].at = last.steps[j].at
                   /\ last.lookups[i].key = map[n].key

\* the root holds a value under u, the user is found neither under its
\* synthetic identity nor under the one the redirect names, and the value is
\* still there in the result
C17_Witness ==
  /\ ReadMade /\ last.overlaid /\ last.op = "D"
  /\ \E i \in 1..Len(last.lookups) :
       /\ ~last.lookups[i].resolved
       /\ last.lookups[i].childId = UserOne
       /\ last.lookups[i].synthId # UserOne
       /\ last.lookups[i].had
       /\ ValueAt(Returned.result, <<"u">>) = Scalar(2)

\* an element of the list whose widget is not stored, followed by the lookup
\* of the widget of another element, which is
C17_WitnessGoesOn ==
  /\ ReadMade /\ last.overlaid /\ last.op = "E"
  /\ \E i, j \in 1..Len(last.lookups) :
       /\ i < j
       /\ ~last.lookups[i].resolved
       /\ last.lookups[j].resolved

\* the closure of a visitor that has not been called yet
FreshClosure ==
  [stack |-> <<>>, visits |-> <<>>, complete |-> TRUE, missingFields |-> <<>>,
   nodeIds |-> NoIds]

FieldsOf(parsedOperation) ==
  [i \in 1..Len(parsedOperation) |->
     <<parsedOperation[i].key, parsedOperation[i].selection>>]

\* The pairs of a compiled subtree and a value that can be reached from a
\* pair, each with its position in the result: nothing from null, one pair per
\* element from an array, and from any other value the pair itself and, unless
\* the visitor answers true for it, what can be reached from the value found
\* under the response key of each field that has sub-selections.
RECURSIVE ReachablePairs(_, _, _, _)
ReachablePairs(parsedOperation, parentSelection, value, at) ==
  IF value.t = "null" THEN {}
  ELSE IF isArray(value)
    THEN UNION {ReachablePairs(parsedOperation, parentSelection, value.e[i],
                               Append(at, ToString(i - 1))) : i \in DOMAIN value.e}
  ELSE
    {[value |-> value, at |-> at, parentSelection |-> parentSelection,
      parsedOperation |-> parsedOperation]}
    \cup
    IF Visitor(FreshClosure, value, FieldsOf(parsedOperation), parentSelection).stop
      THEN {}
      ELSE UNION {ReachablePairs(parsedOperation[i].children,
                                 parsedOperation[i].selection,
                                 get(value, parsedOperation[i].key),
                                 Append(at, parsedOperation[i].key)) :
                    i \in {j \in 1..Len(parsedOperation) :
                             parsedOperation[j].children # <<>>}}

\* C18: the walk of a result ends having called the visitor exactly once for
\* each reachable pair of a compiled subtree and a non-null non-array value:
\* one pair per element of an array, no position twice, and nothing beneath a
\* value for which the visitor answered true.
C18_VisitsOnce ==
  (ReadMade /\ last.visited) =>
    /\ Range(last.visits) =
         ReachablePairs(ParsedOf(last.op), NoSelection, Returned.result, <<>>)
    /\ \A i, j \in 1..Len(last.visits) :
         last.visits[i].at = last.visits[j].at => i = j
    /\ \A i, j \in 1..Len(last.visits) :
         (/\ Visitor(FreshClosure, last.visits[i].value,
                     FieldsOf(last.visits[i].parsedOperation),
                     last.visits[i].parentSelection).stop
          /\ IsPrefix(last.visits[i].at, last.visits[j].at)) => i = j

\* a walk that fanned out over an array of two objects, visited a value
\* beneath one of them and stopped at an undefined value
C18_Witness ==
  /\ ReadMade /\ last.visited
  /\ \E i, j, k \in 1..Len(last.visits) :
       /\ Len(last.visits[i].at) = 2 /\ Len(last.visits[j].at) = 2
       /\ last.visits[i].at[2] = "0" /\ last.visits[j].at[2] = "1"
       /\ last.visits[i].value.t = "obj" /\ last.visits[j].value.t = "obj"
       /\ Len(last.visits[k].at) = 3
       /\ last.visits[k].value.t = "undef"

\* the entity identities of the object values the visitor was called with
VisitedEntityIds ==
  {entityIdForValue(last.visits[i].value) :
     i \in {j \in 1..Len(last.visits) :
              /\ isObject(last.visits[j].value)
              /\ entityIdForValue(last.visits[j].value) # NoId}}

\* C19: entity-id collection.  When a read collects entity ids for a result
\* that is defined, entityIds holds the operation's root identity, whether or
\* not the root value has an entity identity of its own, and the entity
\* identity of every object the visitor visited, and nothing else.
C19_EntityIds ==
  (/\ ReadMade /\ last.visited
   /\ Returned.entityIds.def
   /\ Returned.result.t # "undef")
  => Returned.entityIds.s = {QueryRoot} \cup VisitedEntityIds

\* ids collected for a root without an entity identity and an entity beneath
\* it
C19_Witness ==
  /\ ReadMade /\ last.visited /\ last.includeNodeIds
  /\ Returned.result.t = "obj"
  /\ entityIdForValue(Returned.result) = NoId
  /\ VisitedEntityIds = {ItemOne}
  /\ Returned.entityIds.s = {QueryRoot, ItemOne}

\* whether selection y lies beneath selection x in its document
RECURSIVE NestedBeneath(_, _)
NestedBeneath(x, y) ==
  \E i \in 1..Len(SelTable[x].kids) :
    SelTable[x].kids[i] = y \/ NestedBeneath(SelTable[x].kids[i], y)

EachAtMostOnce(q) == \A i, j \in 1..Len(q) : q[i] = q[j] => i = j

NoneBeneathAnother(q) == \A i, j \in 1..Len(q) : ~NestedBeneath(q[i], q[j])

\* C20: the missing list is minimal.  The missing selections of one
\* completeness check hold each selection at most once, and never a selection
\* together with one nested beneath it.
C20_MinimalMissing ==
  (ReadMade /\ last.visited) =>
    /\ EachAtMostOnce(last.missingFields)
    /\ NoneBeneathAnother(last.missingFields)

\* entityIds of the memoized QueryResult of a pair is neither reset to absent
\* nor loses an identity in a step
IdsKept(s, op) ==
  readCache[s][op].entityIds.def =>
    /\ readCache'[s][op].entityIds.def
    /\ readCache[s][op].entityIds.s \subseteq readCache'[s][op].entityIds.s

\* C21: entity ids are only ever added.  Every read asked for ids returns a
\* QueryResult whose entityIds is a defined set, and once entityIds is set on
\* the memoized QueryResult of a pair, no later read of the pair, with or
\* without ids asked for, whatever the result, resets it to absent or removes
\* an identity from it.
C21_IdsOnlyAdded ==
  [][/\ (last'.n = last.n + 1 /\ last'.includeNodeIds)
          => last'.queryResult.entityIds.def
     /\ \A s \in Snaps, op \in Ops : IdsKept(s, op)]_vars

\* whether v is the stored value data as the overlay leaves it in a result
\* for the compiled map children: the value itself where nothing is selected
\* beneath it, an object for undefined data, an element-wise copy of an array,
\* and for an object a copy that keeps what the data holds under every key
\* that is not the response key of a selected field
RECURSIVE SubstitutedFrom(_, _, _)
SubstitutedFrom(data, v, children) ==
  IF children = <<>> THEN v = data
  ELSE IF data.t = "undef" THEN v.t = "obj"
  ELSE IF data.t = "arr"
    THEN /\ v.t = "arr"
         /\ Len(v.e) = Len(data.e)
         /\ \A i \in DOMAIN data.e :
              IF data.e[i].t = "null" THEN v.e[i] = Null
              ELSE SubstitutedFrom(data.e[i], v.e[i], children)
  ELSE IF data.t = "obj"
    THEN /\ v.t = "obj"
         /\ v.eid = data.eid /\ v.ty = data.ty
         /\ \A k \in DOMAIN data.f :
              (\A n \in 1..Len(children) : children[n].key # k)
                => (k \in DOMAIN v.f /\ v.f[k] = data.f[k])
  ELSE v = data

\* the lookups, among the first n, that found a stored node of identity id
\* whose data sits in the result as the value of the field looked up
SubstitutingLookups(id, n) ==
  {i \in 1..n :
     LET lk == last.lookups[i]
     IN  /\ lk.resolved
         /\ lk.childId = id
         /\ SubstitutedFrom(getNodeData(nodes[last.s], id),
                            ValueAt(Returned.result, Append(lk.at, lk.key)),
                            IF SelTable[lk.selection].kids # <<>>
                                 /\ hasArgsBelow(lk.selection)
                              THEN MapAt(ParsedOf(last.op), Append(lk.at, lk.key))
                              ELSE <<>>)}

\* C22: at every iteration of the overlay, and when it ends, each identity in
\* dynamicNodeIds is that of a node stored in the snapshot being read whose
\* data was substituted into the result as the value of a parameterized
\* field; an identity a redirect answered that is not stored is never there.
C22_DynamicIdsStored ==
  (ReadMade /\ last.overlaid) =>
    /\ \A j \in 1..Len(last.steps) :
         \A id \in last.steps[j].dynamicNodeIds :
           /\ getNodeSnapshot(nodes[last.s], id).exists
           /\ SubstitutingLookups(id, last.steps[j].lookups) # {}
    /\ \A id \in Returned.dynamicNodeIds.s :
         /\ getNodeSnapshot(nodes[last.s], id).exists
         /\ SubstitutingLookups(id, Len(last.lookups)) # {}
    /\ \A i \in 1..Len(last.lookups) :
         (/\ last.lookups[i].childId # last.lookups[i].synthId
          /\ ~getNodeSnapshot(nodes[last.s], last.lookups[i].childId).exists)
         => last.lookups[i].childId \notin Returned.dynamicNodeIds.s

\* the user found through the redirect and the tag found relative to it are
\* both in dynamicNodeIds, in a traversal that had the first before it looked
\* up the second
C22_Witness ==
  /\ ReadMade /\ last.overlaid /\ last.op = "D"
  /\ Returned.dynamicNodeIds.s = {UserOne, TagOf(UserOne, <<>>)}
  /\ \E i \in 1..Len(last.lookups) :
       /\ last.lookups[i].resolved
       /\ last.lookups[i].childId = UserOne
       /\ last.lookups[i].synthId # UserOne
  /\ \E j \in 1..Len(last.steps) : last.steps[j].dynamicNodeIds = {UserOne}

====
